---- MODULE Spec2Model ----
(***************************************************************************)
(* A model of chara: the scanner (src/src/scanner.rs), the parser          *)
(* (src/src/parser.rs), and the static stack-effect inference of the       *)
(* abstract interpreter (src/src/abstract_interpreter.rs) and of the type  *)
(* checker (src/src/typechecker.rs). Each has its own specification:       *)
(* SpecScan, SpecParse, Spec and SpecTC.                                   *)
(***************************************************************************)
EXTENDS Integers, Sequences, FiniteSets, TLC

VARIABLES
    factors,        \* AbstractInterpreter::interpret's argument
    pc,             \* position of the `for factor in factors` loop
    in_stack,       \* AbstractInterpreter.in_stack
    out_stack,      \* AbstractInterpreter.out_stack
    param_count,    \* AbstractInterpreter.param_count
    status,         \* "running", or how interpret ended: "ok", "error", "panic"
    result,         \* the Type or Error interpret returned, or the panic
    cycles,         \* TypeChecker::check's argument
    cycle_ix,       \* position of the `for cycle in cycles` loop
    environment,    \* TypeChecker.environment
    tc_param_count, \* TypeChecker.param_count
    tc_status,      \* "running", or how check ended: "ok", "error", "panic"
    tc_result,      \* what the last check_cycle returned
    string,         \* scan's argument, a sequence of characters
    index,          \* the index (from 0) of the character `chars.next()` yields next
    tokens,         \* scan's `tokens`
    line,           \* scan's `line`
    col,            \* scan's `col`
    token_size,     \* scan's `token_size`
    token_start,    \* scan's `token_start`
    scan_status,    \* "running", or how scan ended: "ok", "error"
    scan_error,     \* the Error scan returned
    parser_tokens,  \* Parser.tokens, drained from the front
    parsed_cycles,  \* parse's `cycles`
    parse_status,   \* "running", or how parse ended: "ok", "error"
    parse_error     \* the Error parse returned

ai_vars == <<factors, pc, in_stack, out_stack, param_count, status, result>>
tc_vars == <<cycles, cycle_ix, environment, tc_param_count, tc_status, tc_result>>
scan_vars == <<string, index, tokens, line, col, token_size, token_start,
               scan_status, scan_error>>
parse_vars == <<parser_tokens, parsed_cycles, parse_status, parse_error>>
vars == <<factors, pc, in_stack, out_stack, param_count, status, result,
          cycles, cycle_ix, environment, tc_param_count, tc_status, tc_result,
          string, index, tokens, line, col, token_size, token_start,
          scan_status, scan_error,
          parser_tokens, parsed_cycles, parse_status, parse_error>>

----------------------------------------------------------------------------
(* Bounds of the model *)

\* Largest number of factor nodes of a term the interpreter is run on
\* (a quotation counts one node plus the nodes of its body).
MaxSize == 4

\* Largest size of a program the type checker is run on: one for a term
\* cycle, two for a definition, plus the factor nodes of the terms.
MaxProgram == 4

----------------------------------------------------------------------------
(* enum Type, typechecker.rs *)

TypeInt == [k |-> "Int"]
TypeBool == [k |-> "Bool"]
TypeString == [k |-> "String"]
Param(n) == [k |-> "Param", n |-> n]
Function(t_in, t_out) == [k |-> "Function", t_in |-> t_in, t_out |-> t_out]

(* struct Token, scanner.rs; Token::unknown() is the placeholder of errors
   raised where no source position is known *)
Token(value, at_line, at_col) == [value |-> value, line |-> at_line, col |-> at_col]
UnknownToken == Token("unknown", 0, 0)

(* enum Error, error.rs *)
ParseError(message, token) == [kind |-> "ParseError", message |-> message, token |-> token]
UnexpectedEndOfFile(message) == [kind |-> "UnexpectedEndOfFile", message |-> message]
UnexpectedToken(message, token) ==
    [kind |-> "UnexpectedToken", message |-> message, token |-> token]
EndOfTerm == [kind |-> "EndOfTerm"]
TypeError(message, token) == [kind |-> "TypeError", message |-> message, token |-> token]
NoError == [kind |-> "None"]
Panic(message) == [kind |-> "panic", message |-> message]

(* enum Factor, parser.rs *)
Dup == [f |-> "Dup"]
Drop == [f |-> "Drop"]
Quote == [f |-> "Quote"]
Call == [f |-> "Call"]
Cat == [f |-> "Cat"]
Swap == [f |-> "Swap"]
Ifte == [f |-> "Ifte"]
IntLit == [f |-> "Int"]
BoolLit == [f |-> "Bool"]
StringLit == [f |-> "String"]
Identifier(name, token) == [f |-> "Identifier", name |-> name, token |-> token]
Quotation(term) == [f |-> "Quotation", term |-> term]

Literals == {"Int", "Bool", "String"}

----------------------------------------------------------------------------
(* impl AbstractInterpreter, abstract_interpreter.rs. The interpreter's
   fields travel as a record s = [in_stack, out_stack, param_count]. *)

NewInterpreter == [in_stack |-> <<>>, out_stack |-> <<>>, param_count |-> 0]

new_param(s) ==
    [t |-> Param(s.param_count), s |-> [s EXCEPT !.param_count = @ + 1]]

\* A pop that takes the bottom of out_stack
PopFromBottom(s) ==
    IF s.out_stack = <<>>
    THEN LET np == new_param(s)
         IN [popped |-> np.t, s |-> [np.s EXCEPT !.in_stack = Append(@, np.t)]]
    ELSE [popped |-> s.out_stack[1], s |-> [s EXCEPT !.out_stack = Tail(@)]]

\* A pop that mints a parameter without recording it in in_stack
PopNoRecord(s) ==
    IF s.out_stack = <<>>
    THEN LET np == new_param(s)
         IN [popped |-> np.t, s |-> np.s]
    ELSE [popped |-> s.out_stack[Len(s.out_stack)],
          s |-> [s EXCEPT !.out_stack = SubSeq(@, 1, Len(@) - 1)]]

pop(s) ==
    IF s.out_stack = <<>>
    THEN LET np == new_param(s)
         IN [popped |-> np.t, s |-> [np.s EXCEPT !.in_stack = Append(@, np.t)]]
    ELSE [popped |-> s.out_stack[Len(s.out_stack)],
          s |-> [s EXCEPT !.out_stack = SubSeq(@, 1, Len(@) - 1)]]

\* A push under the bottom of out_stack
PushFront(s, t) == [s EXCEPT !.out_stack = <<t>> \o @]

push(s, t) == [s EXCEPT !.out_stack = Append(@, t)]

Outcome(st, s, error) == [status |-> st, s |-> s, error |-> error]

RECURSIVE substitute_learned(_, _)
substitute_learned(learned, t) ==
    IF t = <<>> THEN <<>>
    ELSE LET h == Head(t)
             rest == substitute_learned(learned, Tail(t))
         IN IF h.k = "Param"
            THEN IF h.n \in DOMAIN learned THEN <<learned[h.n]>> \o rest ELSE rest
            ELSE <<h>> \o rest

\* call_as_function, `for t_expected in t_in.iter().rev()`: i runs from
\* Len(t_in) down to 1.
RECURSIVE PopExpected(_, _, _, _)
PopExpected(s, t_in, i, learned) ==
    IF i = 0 THEN [status |-> "ok", s |-> s, error |-> NoError, learned |-> learned]
    ELSE LET t_expected == t_in[i]
             p == pop(s)
             t_actual == p.popped
         IN IF t_expected.k = "Param"
            THEN PopExpected(p.s, t_in, i - 1, (t_expected.n :> t_actual) @@ learned)
            ELSE IF t_expected # t_actual
                 THEN [status |-> "error", s |-> p.s,
                       error |-> TypeError(<<"Expected", t_expected, "but got", t_actual>>,
                                           UnknownToken),
                       learned |-> learned]
                 ELSE PopExpected(p.s, t_in, i - 1, learned)

\* call_as_function, `for out in t_out.into_iter()`
RECURSIVE PushOutputs(_, _, _)
PushOutputs(s, t_out, learned) ==
    IF t_out = <<>> THEN s
    ELSE LET out == Head(t_out)
             s1 == CASE out.k = "Param" ->
                           IF out.n \in DOMAIN learned THEN push(s, learned[out.n]) ELSE s
                     [] out.k = "Function" ->
                           push(s, Function(substitute_learned(learned, out.t_in),
                                            substitute_learned(learned, out.t_out)))
                     [] OTHER -> push(s, out)
         IN PushOutputs(s1, Tail(t_out), learned)

call_as_function(s, a) ==
    CASE a.k = "Function" ->
            LET r == PopExpected(s, a.t_in, Len(a.t_in), <<>>)
            IN IF r.status = "ok"
               THEN Outcome("ok", PushOutputs(r.s, a.t_out, r.learned), NoError)
               ELSE Outcome(r.status, r.s, r.error)
      [] a.k = "Param" -> Outcome("ok", s, NoError)
      [] OTHER -> Outcome("panic", s, Panic("Expected function"))

RECURSIVE interpret_factor(_, _), InterpretFrom(_, _, _)

\* A quotation whose inner term runs on the enclosing interpreter's stacks
InterpretQuotationInPlace(s, term) ==
    LET t == InterpretFrom(s, term, 1)
    IN IF t.status = "ok"
       THEN Outcome("ok", push(s, t.value), NoError)
       ELSE Outcome(t.status, s, t.value)

\* interpret_factor, Factor::Quotation: a fresh interpreter runs the inner term
interpret_quotation(s, term) ==
    LET t == InterpretFrom(NewInterpreter, term, 1)
    IN IF t.status = "ok"
       THEN Outcome("ok", push(s, t.value), NoError)
       ELSE Outcome(t.status, s, t.value)

\* interpret: the loop from factor i on, then Ok(Type::Function(in_stack, out_stack))
InterpretFrom(s, term, i) ==
    IF i > Len(term)
    THEN [status |-> "ok", value |-> Function(s.in_stack, s.out_stack)]
    ELSE LET r == interpret_factor(s, term[i])
         IN IF r.status = "ok"
            THEN InterpretFrom(r.s, term, i + 1)
            ELSE [status |-> r.status, value |-> r.error]

interpret_factor(s, factor) ==
    CASE factor.f = "Dup" ->
            LET p == pop(s) IN Outcome("ok", push(push(p.s, p.popped), p.popped), NoError)
      [] factor.f = "Drop" -> Outcome("ok", pop(s).s, NoError)
      [] factor.f = "Quote" ->
            LET p == pop(s) IN Outcome("ok", push(p.s, Function(<<>>, <<p.popped>>)), NoError)
      [] factor.f = "Call" -> LET p == pop(s) IN call_as_function(p.s, p.popped)
      [] factor.f \in {"Cat", "Swap", "Ifte", "Identifier"} ->
            Outcome("panic", s, Panic("not implemented"))
      [] factor.f = "Int" -> Outcome("ok", push(s, TypeInt), NoError)
      [] factor.f = "Bool" -> Outcome("ok", push(s, TypeBool), NoError)
      [] factor.f = "String" -> Outcome("ok", push(s, TypeString), NoError)
      [] factor.f = "Quotation" -> interpret_quotation(s, factor.term)

interpret(term) == InterpretFrom(NewInterpreter, term, 1)

----------------------------------------------------------------------------
(* enum TypeAnnotation and enum Cycle, parser.rs *)

AnnotationIdentifier(name, token) == [a |-> "Identifier", name |-> name, token |-> token]
AnnotationFunction(in_types, out_types, token, last_token) ==
    [a |-> "Function", in_types |-> in_types, out_types |-> out_types,
     token |-> token, last_token |-> last_token]

Definition(name, annotation, term) ==
    [c |-> "Definition", name |-> name, annotation |-> annotation, factors |-> term]
Term(term) == [c |-> "Term", factors |-> term]

----------------------------------------------------------------------------
(* impl TypeChecker, typechecker.rs. environment is a function from names
   to types; param_count is threaded through the operators. *)

IntIntToInt == Function(<<TypeInt, TypeInt>>, <<TypeInt>>)
IntIntToBool == Function(<<TypeInt, TypeInt>>, <<TypeBool>>)

\* TypeChecker::new
BuiltinEnvironment ==
    [name \in {"+", "-", "*", "/", "<", ">", "=", "not", "and", "or"} |->
        CASE name \in {"+", "-", "*", "/"} -> IntIntToInt
          [] name \in {"<", ">", "="} -> IntIntToBool
          [] name = "not" -> Function(<<TypeBool>>, <<TypeBool>>)
          [] name \in {"and", "or"} -> Function(<<TypeBool, TypeBool>>, <<TypeBool>>)]

Ok(value) == [status |-> "ok", value |-> value]
Err(error) == [status |-> "error", value |-> error]
Panicked(message) == [status |-> "panic", value |-> Panic(message)]

RECURSIVE type_from_annotation(_), TypesFromAnnotations(_)

\* The types of a list of annotations, errors included, in order
TypesFromAnnotations(annotations) ==
    [i \in 1..Len(annotations) |-> type_from_annotation(annotations[i])]

type_from_annotation(annotation) ==
    IF annotation.a = "Function"
    THEN LET in_types == TypesFromAnnotations(annotation.in_types)
             out_types == TypesFromAnnotations(annotation.out_types)
         IN IF \/ \E i \in 1..Len(in_types) : in_types[i].status # "ok"
               \/ \E i \in 1..Len(out_types) : out_types[i].status # "ok"
            THEN Err(TypeError("Error in function type", annotation.token))
            ELSE Ok(Function([i \in 1..Len(in_types) |-> in_types[i].value],
                             [i \in 1..Len(out_types) |-> out_types[i].value]))
    ELSE CASE annotation.name = "Int" -> Ok(TypeInt)
           [] annotation.name = "Bool" -> Ok(TypeBool)
           [] annotation.name = "String" -> Ok(TypeString)
           [] OTHER -> Err(TypeError("Unknown type " \o annotation.name, annotation.token))

\* check_term, `t_out.iter_mut().for_each(...)`: the top-level elements of
\* t_out that are Param(n_expected) become Param(n_actual)
ReplaceParam(t_out, n_expected, n_actual) ==
    [j \in 1..Len(t_out) |->
        IF t_out[j].k = "Param" /\ t_out[j].n = n_expected
        THEN Param(n_actual)
        ELSE t_out[j]]

\* check_term, a factor of Function type: `for t_expected in
\* t_in.into_iter().rev()`, i from Len(t_in) down to 1, then
\* out_stack.extend(t_out)
RECURSIVE ApplyFunction(_, _, _, _, _)
ApplyFunction(ins, outs, t_in, i, t_out) ==
    IF i = 0 THEN [in_stack |-> ins, out_stack |-> outs \o t_out]
    ELSE LET t_expected == t_in[i]
         IN IF Len(outs) = 0
            THEN ApplyFunction(Append(ins, t_expected), outs, t_in, i - 1, t_out)
            ELSE LET t_actual == outs[Len(outs)]
                     popped == SubSeq(outs, 1, Len(outs) - 1)
                 IN IF t_expected.k = "Param" /\ t_actual.k = "Param"
                    THEN ApplyFunction(ins, popped, t_in, i - 1,
                                       ReplaceParam(t_out, t_expected.n, t_actual.n))
                    ELSE ApplyFunction(ins, popped, t_in, i - 1, t_out)

\* The results of check_factor and check_term carry the param_count they leave
Checked(r, count) == [status |-> r.status, value |-> r.value, param_count |-> count]

\* A lookup that takes an unknown identifier for a word of no effect
CheckIdentifierAcceptsUnknown(env, count, factor) ==
    IF factor.name \notin DOMAIN env
    THEN Checked(Ok(Function(<<>>, <<>>)), count)
    ELSE Checked(Ok(env[factor.name]), count)

\* check_factor, Factor::Identifier: the name's type, or a TypeError with the
\* identifier's token
check_identifier(env, count, factor) ==
    IF factor.name \notin DOMAIN env
    THEN Checked(Err(TypeError("Unknown identifier " \o factor.name, factor.token)), count)
    ELSE Checked(Ok(env[factor.name]), count)

RECURSIVE check_factor(_, _, _), CheckTermFrom(_, _, _, _, _, _)

\* check_term: the loop from factor i on, then Ok(Type::Function(in_stack, out_stack))
CheckTermFrom(env, count, term, i, ins, outs) ==
    IF i > Len(term) THEN Checked(Ok(Function(ins, outs)), count)
    ELSE LET r == check_factor(env, count, term[i])
             t == r.value
         IN IF r.status # "ok" THEN r
            ELSE IF t.k = "Function"
                 THEN LET applied == ApplyFunction(ins, outs, t.t_in, Len(t.t_in), t.t_out)
                      IN CheckTermFrom(env, r.param_count, term, i + 1,
                                       applied.in_stack, applied.out_stack)
                 ELSE CheckTermFrom(env, r.param_count, term, i + 1, ins, Append(outs, t))

check_term(env, count, term) == CheckTermFrom(env, count, term, 1, <<>>, <<>>)

check_factor(env, count, factor) ==
    CASE factor.f = "Dup" ->
            LET t == Param(count)
            IN Checked(Ok(Function(<<t>>, <<t, t>>)), count + 1)
      [] factor.f = "Drop" ->
            LET t == Param(count)
            IN Checked(Ok(Function(<<t>>, <<>>)), count + 1)
      [] factor.f = "Quote" ->
            LET t == Param(count)
            IN Checked(Ok(Function(<<t>>, <<Function(<<>>, <<t>>)>>)), count + 1)
      [] factor.f \in {"Call", "Cat"} -> Checked(Panicked("not implemented"), count)
      [] factor.f = "Swap" ->
            LET a == Param(count)
                b == Param(count + 1)
            IN Checked(Ok(Function(<<a, b>>, <<b, a>>)), count + 2)
      [] factor.f = "Ifte" ->
            LET t_in == Param(count)
                t_out == Param(count + 1)
                t_condition == Function(<<t_in>>, <<TypeBool>>)
                t_body == Function(<<TypeBool>>, <<t_out>>)
            IN Checked(Ok(Function(<<t_condition, t_body, t_body>>, <<t_out>>)), count + 2)
      [] factor.f = "Int" -> Checked(Ok(Function(<<>>, <<TypeInt>>)), count)
      [] factor.f = "Bool" -> Checked(Ok(Function(<<>>, <<TypeBool>>)), count)
      [] factor.f = "String" -> Checked(Ok(Function(<<>>, <<TypeString>>)), count)
      [] factor.f = "Identifier" -> check_identifier(env, count, factor)
      [] factor.f = "Quotation" -> check_term(env, count, factor.term)

\* environment.insert(name, annotation)
Insert(env, name, t) == (name :> t) @@ env

\* check_definition: the name is bound, then the body is checked
check_definition(env, count, name, annotation, term) ==
    LET bound == Insert(env, name, annotation)
        r == check_term(bound, count, term)
    IN [status |-> r.status, value |-> r.value, param_count |-> r.param_count,
        environment |-> bound]

\* check_cycle; the result carries the fields of the checker it leaves
check_cycle(env, count, cycle) ==
    IF cycle.c = "Definition"
    THEN LET annotation == type_from_annotation(cycle.annotation)
         IN IF annotation.status # "ok"
            THEN [status |-> annotation.status, value |-> annotation.value,
                  param_count |-> count, environment |-> env]
            ELSE check_definition(env, count, cycle.name, annotation.value, cycle.factors)
    ELSE LET r == check_term(env, count, cycle.factors)
         IN [status |-> r.status, value |-> r.value, param_count |-> r.param_count,
             environment |-> env]

----------------------------------------------------------------------------
(* The terms the interpreter is run on *)

AILeaves == {Dup, Drop, Quote, Call, IntLit, BoolLit}

\* All terms of at most max literals
LiteralTerms(max) == UNION {[1..n -> {IntLit, BoolLit, StringLit}] : n \in 0..max}

\* The sets of the terms of 0, 1, ..., max factor nodes, each built from the
\* sets of the smaller sizes: a term of n nodes starts with a leaf or with a
\* quotation of j nodes in its body.
RECURSIVE BuildTerms(_, _, _)
BuildTerms(leaves, table, max) ==
    LET n == Len(table)
    IN IF n > max THEN table
       ELSE BuildTerms(leaves,
                       Append(table,
                              {<<l>> \o t : l \in leaves, t \in table[n]}
                              \cup UNION {{<<Quotation(body)>> \o t : body \in table[j + 1],
                                                                   t \in table[n - j]}
                                          : j \in 0..(n - 1)}),
                       max)

TermTable(leaves, max) == BuildTerms(leaves, <<{<<>>}>>, max)

TermsUpTo(leaves, max) ==
    LET table == TermTable(leaves, max)
    IN UNION {table[n + 1] : n \in 0..max}

\* Terms of the tests and of the specification's examples that are larger
\* than MaxSize or use a string literal, and the primitive words the
\* interpreter leaves unimplemented
DeepTerms ==
    { <<IntLit, BoolLit, Quotation(<<Drop, Dup>>), Call>>,
      <<IntLit, Quotation(<<Drop, Quotation(<<Drop>>)>>), Call>>,
      <<IntLit, Quotation(<<Drop, Quotation(<<Drop>>)>>), Call, Call>>,
      <<BoolLit, Quotation(<<IntLit, Quotation(<<Drop, Quotation(<<Drop>>)>>), Call, Call>>)>>,
      <<IntLit, IntLit, Quotation(<<Drop, Drop>>), Call>>,
      <<IntLit, Quotation(<<Quote, IntLit, Quote>>), Call>>,
      <<Quotation(<<IntLit, Dup, Dup>>), Call>>,
      <<StringLit, Dup, Quote, Call>>, <<IntLit, StringLit, Quotation(<<Quote>>), Call>>,
      <<Swap>>, <<IntLit, BoolLit, Swap>>, <<Quotation(<<Swap>>), Call>>,
      <<Cat>>, <<Ifte>>, <<Identifier("a", Token("a", 1, 1))>> }


----------------------------------------------------------------------------
(* One run of AbstractInterpreter::interpret, a factor at a time *)

State == [in_stack |-> in_stack, out_stack |-> out_stack, param_count |-> param_count]

ScanIdle ==
    /\ string = <<>> /\ index = 0 /\ tokens = <<>> /\ line = 1 /\ col = 1
    /\ token_size = 0 /\ token_start = 0 /\ scan_status = "idle" /\ scan_error = NoError

ParseIdle ==
    /\ parser_tokens = <<>> /\ parsed_cycles = <<>>
    /\ parse_status = "idle" /\ parse_error = NoError

TCIdle ==
    /\ cycles = <<>> /\ cycle_ix = 1 /\ environment = <<>> /\ tc_param_count = 0
    /\ tc_status = "idle" /\ tc_result = NoError

Init ==
    /\ factors \in TermsUpTo(AILeaves, MaxSize) \cup LiteralTerms(MaxSize) \cup DeepTerms
    /\ pc = 1
    /\ in_stack = <<>>
    /\ out_stack = <<>>
    /\ param_count = 0
    /\ status = "running"
    /\ result = NoError
    /\ TCIdle
    /\ ScanIdle
    /\ ParseIdle

\* The loop of interpret stands before a factor of one of `kinds`
AtFactor(kinds) ==
    /\ status = "running"
    /\ pc <= Len(factors)
    /\ factors[pc].f \in kinds

\* One iteration of the loop of interpret: self.interpret_factor(factor)?
Advance(r) ==
    /\ in_stack' = r.s.in_stack
    /\ out_stack' = r.s.out_stack
    /\ param_count' = r.s.param_count
    /\ status' = IF r.status = "ok" THEN "running" ELSE r.status
    /\ result' = r.error
    /\ pc' = pc + 1
    /\ UNCHANGED <<factors, tc_vars, scan_vars, parse_vars>>

InterpretDup ==
    /\ AtFactor({"Dup"})
    /\ Advance(interpret_factor(State, factors[pc]))

InterpretDrop ==
    /\ AtFactor({"Drop"})
    /\ Advance(interpret_factor(State, factors[pc]))

InterpretQuote ==
    /\ AtFactor({"Quote"})
    /\ Advance(interpret_factor(State, factors[pc]))

InterpretCall ==
    /\ AtFactor({"Call"})
    /\ Advance(interpret_factor(State, factors[pc]))

InterpretLiteral ==
    /\ AtFactor(Literals)
    /\ Advance(interpret_factor(State, factors[pc]))

InterpretQuotation ==
    /\ AtFactor({"Quotation"})
    /\ Advance(interpret_factor(State, factors[pc]))

InterpretUnimplemented ==
    /\ AtFactor({"Cat", "Swap", "Ifte", "Identifier"})
    /\ Advance(interpret_factor(State, factors[pc]))

\* The loop is over: Ok(Type::Function(self.in_stack, self.out_stack))
InterpretReturn ==
    /\ status = "running"
    /\ pc > Len(factors)
    /\ status' = "ok"
    /\ result' = Function(in_stack, out_stack)
    /\ UNCHANGED <<factors, pc, in_stack, out_stack, param_count, tc_vars, scan_vars, parse_vars>>

Next ==
    \/ InterpretDup
    \/ InterpretDrop
    \/ InterpretQuote
    \/ InterpretCall
    \/ InterpretLiteral
    \/ InterpretQuotation
    \/ InterpretUnimplemented
    \/ InterpretReturn

Spec == Init /\ [][Next]_vars

----------------------------------------------------------------------------
(* The programs the type checker is run on, as Parser::parse returns them:
   definitions, then at most one term, which is not empty (parse_term reads
   to the end of the input). *)

NoToken == Token("", 0, 0)

TCLeaves ==
    {Dup, Swap, IntLit, BoolLit}
    \cup {Identifier(name, NoToken) : name \in {"+", "a", "b"}}

DefinitionNames == {"a", "b"}

Annotations ==
    { AnnotationIdentifier("Int", NoToken),
      AnnotationIdentifier("Foo", NoToken),
      AnnotationFunction(<<AnnotationIdentifier("Int", NoToken)>>,
                         <<AnnotationIdentifier("Int", NoToken)>>, NoToken, NoToken) }

DefinitionsOf(terms) ==
    {Definition(name, annotation, term) :
        name \in DefinitionNames, annotation \in Annotations, term \in terms}

\* The sets of the programs of size 0, 1, ..., max, each built from the sets
\* of the smaller sizes. A term cycle counts one and a definition two, plus
\* the factor nodes of the term; terms[j + 1] are the terms of j nodes.
RECURSIVE BuildPrograms(_, _, _)
BuildPrograms(terms, table, max) ==
    LET n == Len(table)
    IN IF n > max THEN table
       ELSE BuildPrograms(terms,
                          Append(table,
                                 (IF n >= 2 THEN {<<Term(term)>> : term \in terms[n]} ELSE {})
                                 \cup UNION {{<<d>> \o rest : d \in DefinitionsOf(terms[j + 1]),
                                                              rest \in table[n - j - 1]}
                                             : j \in 0..(n - 2)}),
                          max)

ProgramsUpTo(max) ==
    LET table == BuildPrograms(TermTable(TCLeaves, max), <<{<<>>}>>, max)
    IN UNION {table[n + 1] : n \in 0..max}

\* Programs of the tests and of the specification's examples that are larger
\* than MaxProgram or use the words and names left out of TCLeaves
DeepPrograms ==
    { <<Term(<<Quotation(<<Drop, Drop>>)>>)>>,
      <<Term(<<IntLit, BoolLit, Drop>>)>>,
      <<Term(<<Quotation(<<Dup, Drop, Dup>>)>>)>>,
      <<Term(<<Quotation(<<Ifte, Dup, Drop>>)>>)>>,
      <<Term(<<Quotation(<<Identifier("a", NoToken), Identifier("b", NoToken),
                           Identifier("c", NoToken)>>)>>)>>,
      <<Term(<<IntLit, Quotation(<<Quote, Quotation(<<Ifte, Identifier("c", NoToken)>>)>>),
               Identifier("a", NoToken)>>)>>,
      <<Term(<<StringLit, Quote>>)>>,
      <<Term(<<BoolLit, BoolLit, Identifier("and", NoToken), Identifier("not", NoToken)>>)>>,
      <<Term(<<IntLit, Call>>)>>,
      <<Definition("a", AnnotationIdentifier("Int", NoToken), <<Identifier("b", NoToken)>>),
        Term(<<Identifier("c", NoToken)>>)>>,
      <<Definition("a", AnnotationIdentifier("Foo", NoToken), <<IntLit>>),
        Definition("b", AnnotationIdentifier("Int", NoToken), <<Identifier("a", NoToken)>>)>>,
      <<Definition("a", AnnotationIdentifier("Int", NoToken), <<IntLit>>),
        Term(<<Identifier("a", NoToken), Quotation(<<Identifier("b", NoToken)>>),
               Identifier("c", NoToken)>>)>>,
      <<Definition("a", AnnotationIdentifier("Int", NoToken), <<IntLit, Cat>>)>>,
      <<Definition("a", AnnotationIdentifier("Int", NoToken), <<Identifier("b", NoToken)>>),
        Definition("b", AnnotationIdentifier("Int", NoToken), <<Identifier("a", NoToken)>>)>>,
      <<Definition("a", AnnotationIdentifier("Int", NoToken), <<IntLit>>),
        Definition("b", AnnotationIdentifier("Int", NoToken), <<Identifier("a", NoToken)>>),
        Term(<<Identifier("a", NoToken), Identifier("b", NoToken)>>)>>,
      <<Definition("+", AnnotationIdentifier("Bool", NoToken), <<BoolLit>>),
        Term(<<Identifier("+", NoToken)>>)>>,
      <<Definition("a", AnnotationIdentifier("Int", NoToken), <<IntLit>>),
        Definition("a", AnnotationIdentifier("Bool", NoToken), <<Identifier("b", NoToken)>>)>> }

\* The tokens of a term as the parser attaches them: every factor is one
\* token, a quotation its two brackets around its term; col is the token's
\* place in the source.
RECURSIVE LabelTerm(_, _)
LabelTerm(term, pos) ==
    IF term = <<>> THEN [term |-> <<>>, pos |-> pos]
    ELSE LET h == Head(term)
             first ==
                CASE h.f = "Identifier" ->
                        [factor |-> Identifier(h.name, Token(h.name, 1, pos)), pos |-> pos + 1]
                  [] h.f = "Quotation" ->
                        LET body == LabelTerm(h.term, pos + 1)
                        IN [factor |-> Quotation(body.term), pos |-> body.pos + 1]
                  [] OTHER -> [factor |-> h, pos |-> pos + 1]
             rest == LabelTerm(Tail(term), first.pos)
         IN [term |-> <<first.factor>> \o rest.term, pos |-> rest.pos]

\* The tokens of a type annotation: `(` type { `,` type } `->` type { `,` type } `)`
RECURSIVE LabelAnnotation(_, _), LabelAnnotations(_, _)
LabelAnnotation(annotation, pos) ==
    IF annotation.a = "Identifier"
    THEN [annotation |-> AnnotationIdentifier(annotation.name, Token(annotation.name, 1, pos)),
          pos |-> pos + 1]
    ELSE LET ins == LabelAnnotations(annotation.in_types, pos + 1)
             outs == LabelAnnotations(annotation.out_types, ins.pos)
         IN [annotation |-> AnnotationFunction(ins.annotations, outs.annotations,
                                               Token("(", 1, pos), Token(")", 1, outs.pos - 1)),
             pos |-> outs.pos]
\* Each annotation of the list is followed by one token: `,`, `->` or `)`
LabelAnnotations(annotations, pos) ==
    IF annotations = <<>> THEN [annotations |-> <<>>, pos |-> pos]
    ELSE LET first == LabelAnnotation(Head(annotations), pos)
             rest == LabelAnnotations(Tail(annotations), first.pos + 1)
         IN [annotations |-> <<first.annotation>> \o rest.annotations, pos |-> rest.pos]

\* The tokens of a program: `def` name `:` type `=` term `;` for a definition
RECURSIVE LabelProgram(_, _)
LabelProgram(program, pos) ==
    IF program = <<>> THEN <<>>
    ELSE LET cycle == Head(program)
         IN IF cycle.c = "Term"
            THEN LET term == LabelTerm(cycle.factors, pos)
                 IN <<Term(term.term)>> \o LabelProgram(Tail(program), term.pos)
            ELSE LET annotation == LabelAnnotation(cycle.annotation, pos + 3)
                     term == LabelTerm(cycle.factors, annotation.pos + 1)
                 IN <<Definition(cycle.name, annotation.annotation, term.term)>>
                    \o LabelProgram(Tail(program), term.pos + 1)

TCPrograms(max) ==
    {LabelProgram(program, 1) : program \in ProgramsUpTo(max) \cup DeepPrograms}

----------------------------------------------------------------------------
(* One run of TypeChecker::check, a cycle at a time *)

AIIdle ==
    /\ factors = <<>> /\ pc = 1 /\ in_stack = <<>> /\ out_stack = <<>>
    /\ param_count = 0 /\ status = "idle" /\ result = NoError

InitTC ==
    /\ cycles \in TCPrograms(MaxProgram)
    /\ cycle_ix = 1
    /\ environment = BuiltinEnvironment
    /\ tc_param_count = 0
    /\ tc_status = "running"
    /\ tc_result = Ok(NoError)
    /\ AIIdle
    /\ ScanIdle
    /\ ParseIdle

\* The loop of check stands before a cycle of kind c
AtCycle(c) ==
    /\ tc_status = "running"
    /\ cycle_ix <= Len(cycles)
    /\ cycles[cycle_ix].c = c

\* One iteration of the loop of check: self.check_cycle(cycle)?
AdvanceCheck(r) ==
    /\ environment' = r.environment
    /\ tc_param_count' = r.param_count
    /\ tc_result' = [status |-> r.status, value |-> r.value]
    /\ tc_status' = IF r.status = "ok" THEN "running" ELSE r.status
    /\ cycle_ix' = IF r.status = "ok" THEN cycle_ix + 1 ELSE cycle_ix
    /\ UNCHANGED <<cycles, ai_vars, scan_vars, parse_vars>>

CheckTermCycle ==
    /\ AtCycle("Term")
    /\ AdvanceCheck(check_cycle(environment, tc_param_count, cycles[cycle_ix]))

CheckDefinitionCycle ==
    /\ AtCycle("Definition")
    /\ AdvanceCheck(check_cycle(environment, tc_param_count, cycles[cycle_ix]))

\* The loop is over: Ok(())
CheckReturn ==
    /\ tc_status = "running"
    /\ cycle_ix > Len(cycles)
    /\ tc_status' = "ok"
    /\ UNCHANGED <<cycles, cycle_ix, environment, tc_param_count, tc_result, ai_vars, scan_vars, parse_vars>>

NextTC ==
    \/ CheckTermCycle
    \/ CheckDefinitionCycle
    \/ CheckReturn

SpecTC == InitTC /\ [][NextTC]_vars

----------------------------------------------------------------------------
(* fn scan, scanner.rs. The source is a sequence of characters; a token's
   value is the sequence of the characters `string[a..b]` slices. *)

MaxSource == 4

Whitespace == {" ", "\t", "\r", "\n"}
Punctuation == {"{", "}", "(", ")", "[", "]", ".", ",", ";", ":"}

\* string[a..b], a and b counted from 0, b excluded
Slice(s, a, b) == SubSeq(s, a + 1, b)

\* The inner loop of the `"` branch, from the character of index i on, st the
\* locals [tokens, col, token_size]; start is token_start and open the index
\* of the opening quote
RECURSIVE ScanStringFrom(_, _, _, _, _, _)
ScanStringFrom(s, st, i, start, open, at_line) ==
    IF i >= Len(s)
    THEN \* chars.next() is None: the loop ends with token_size > 0
         [status |-> "error", index |-> Len(s), st |-> st,
          error |-> ParseError("Unterminated string",
                               Token(Slice(s, start, open), at_line, st.col))]
    ELSE LET c == s[i + 1]
             counted == [st EXCEPT !.col = @ + 1, !.token_size = @ + 1]
         IN CASE c = "\"" ->
                    [status |-> "ok", index |-> i + 1,
                     st |-> [counted EXCEPT
                                !.tokens = Append(@, Token(Slice(s, start, i + 1), at_line,
                                                           counted.col - counted.token_size)),
                                !.token_size = 0],
                     error |-> NoError]
              [] c = "\n" ->
                    [status |-> "error", index |-> i + 1, st |-> counted,
                     error |-> ParseError("Unterminated string",
                                          Token(Slice(s, start, i), at_line, counted.col))]
              [] c = "\\" ->
                    ScanStringFrom(s, [counted EXCEPT !.col = @ + 1, !.token_size = @ + 1],
                                   i + 2, start, open, at_line)
              [] OTHER -> ScanStringFrom(s, counted, i + 1, start, open, at_line)

\* Sources of up to max characters over a whitespace, a newline, a
\* punctuation, a quote, a backslash and a letter
Chars == {"a", " ", "\n", "[", "\"", "\\"}

Sources(max) == UNION {[1..n -> Chars] : n \in 0..max}

\* Sources of the tests, and longer ones: strings that hold an escaped
\* newline, the other punctuation and whitespace characters
DeepSources ==
    { <<"\"", "a", ",", " ", "\\", "n", "a", "!", "\"">>,
      <<"[", "a", ",", " ", "a", "!", "]">>,
      <<"(", "a", ",", " ", "a", "!", ")">>,
      <<"{", "a", ",", " ", "a", "!", "}">>,
      <<"d", "e", "f", " ", "a", ":", "\t", "(", "I", "-", ">", "I", ")", "=", "1", ";", "\r", "\n", "a", ".">>,
      <<"\"", "\\", "\n", "\"", "\"">>,
      <<"\"", "\\", "\n", "\"", "\n", "\"">>,
      <<"a", "\"", "[", "\"", "a", "[">>,
      <<"\"", "[", "\"", "a", "a", " ", "a">> }

InitScan ==
    /\ string \in Sources(MaxSource) \cup DeepSources
    /\ index = 0
    /\ tokens = <<>>
    /\ line = 1
    /\ col = 1
    /\ token_size = 0
    /\ token_start = 0
    /\ scan_status = "running"
    /\ scan_error = NoError
    /\ AIIdle
    /\ TCIdle
    /\ ParseIdle

\* `while let Some((index, c)) = chars.next()` yields a character of `kinds`
AtChar(kinds) ==
    /\ scan_status = "running"
    /\ index < Len(string)
    /\ string[index + 1] \in kinds

\* The token being collected, pushed by the whitespace and punctuation
\* branches when token_size > 0
PushPending ==
    IF token_size > 0
    THEN Append(tokens, Token(Slice(string, token_start, index), line, col - token_size))
    ELSE tokens

ScanWhitespace ==
    /\ AtChar(Whitespace)
    /\ tokens' = PushPending
    /\ token_size' = 0
    /\ line' = IF string[index + 1] = "\n" THEN line + 1 ELSE line
    /\ col' = IF string[index + 1] = "\n" THEN 1 ELSE col + 1
    /\ token_start' = index + 1
    /\ index' = index + 1
    /\ UNCHANGED <<string, scan_status, scan_error, ai_vars, tc_vars, parse_vars>>

ScanPunctuation ==
    /\ AtChar(Punctuation)
    /\ tokens' = Append(PushPending, Token(Slice(string, index, index + 1), line, col))
    /\ token_size' = 0
    /\ token_start' = index + 1
    /\ index' = index + 1
    /\ UNCHANGED <<string, line, col, scan_status, scan_error, ai_vars, tc_vars, parse_vars>>

ScanString ==
    /\ AtChar({"\""})
    /\ LET r == ScanStringFrom(string,
                               [tokens |-> tokens, col |-> col + 1,
                                token_size |-> token_size + 1],
                               index + 1, token_start, index, line)
       IN /\ tokens' = r.st.tokens
          /\ col' = r.st.col
          /\ token_size' = r.st.token_size
          /\ index' = r.index
          /\ scan_status' = IF r.status = "ok" THEN "running" ELSE "error"
          /\ scan_error' = r.error
    /\ UNCHANGED <<string, line, token_start, ai_vars, tc_vars, parse_vars>>

ScanOther ==
    /\ scan_status = "running"
    /\ index < Len(string)
    /\ string[index + 1] \notin Whitespace \cup Punctuation \cup {"\""}
    /\ col' = col + 1
    /\ token_size' = token_size + 1
    /\ index' = index + 1
    /\ UNCHANGED <<string, tokens, line, token_start, scan_status, scan_error,
                   ai_vars, tc_vars, parse_vars>>

\* The end of the input: the token being collected is pushed, Ok(tokens)
ScanReturn ==
    /\ scan_status = "running"
    /\ index >= Len(string)
    /\ tokens' = IF token_size > 0
                 THEN Append(tokens, Token(Slice(string, token_start, Len(string)), line, col))
                 ELSE tokens
    /\ scan_status' = "ok"
    /\ UNCHANGED <<string, index, line, col, token_size, token_start, scan_error,
                   ai_vars, tc_vars, parse_vars>>

NextScan ==
    \/ ScanWhitespace
    \/ ScanPunctuation
    \/ ScanString
    \/ ScanOther
    \/ ScanReturn

SpecScan == InitScan /\ [][NextScan]_vars

----------------------------------------------------------------------------
(* impl Parser, parser.rs. The functions take the tokens that are left and
   give back [status, value, tokens, error]: the Result, and the tokens
   left after the call. Token values are sequences of characters. *)

MaxTokens == 4
MaxCycles == 6

Digits == {"0", "1", "2", "3", "4", "5", "6", "7", "8", "9"}

\* Parser::is_valid_identifier
is_valid_identifier(token) ==
    \A i \in 1..Len(token.value) : token.value[i] \notin Punctuation \cup {"\""}

\* token.value.parse::<i64>() is Ok: digits after an optional sign (a value
\* out of the range of i64 needs more digits than the tokens here have)
ParsesAsInteger(value) ==
    LET digits == IF value # <<>> /\ value[1] \in {"+", "-"} THEN Tail(value) ELSE value
    IN digits # <<>> /\ \A i \in 1..Len(digits) : digits[i] \in Digits

\* token.value.parse::<bool>() is Ok
ParsesAsBool(value) ==
    value \in {<<"t", "r", "u", "e">>, <<"f", "a", "l", "s", "e">>}

Parsed(value, toks) == [status |-> "ok", value |-> value, tokens |-> toks, error |-> NoError]
Failed(error, toks) == [status |-> "error", value |-> <<>>, tokens |-> toks, error |-> error]

Keywords ==
    [Dup |-> <<"d", "u", "p">>, Drop |-> <<"d", "r", "o", "p">>,
     Quote |-> <<"q", "u", "o", "t", "e">>, Call |-> <<"c", "a", "l", "l">>,
     Cat |-> <<"c", "a", "t">>, Swap |-> <<"s", "w", "a", "p">>,
     Ifte |-> <<"i", "f", "t", "e">>]

RECURSIVE parse_factor(_), ParseTermFrom(_, _)

\* A parse_term that hands the EndOfTerm of parse_factor to its caller
ParseTermSurfacesEndOfTerm(toks) ==
    LET r == parse_factor(toks)
    IN IF r.status = "ok" THEN ParseTermFrom(r.tokens, <<r.value>>) ELSE r

\* Parser::parse_term: factors are collected until parse_factor returns
\* EndOfTerm; another error is returned
ParseTermFrom(toks, collected) ==
    LET r == parse_factor(toks)
    IN IF r.status = "ok" THEN ParseTermFrom(r.tokens, Append(collected, r.value))
       ELSE IF r.error = EndOfTerm THEN Parsed(collected, r.tokens)
       ELSE r

parse_term(toks) == ParseTermFrom(toks, <<>>)

\* Parser::parse_factor
parse_factor(toks) ==
    IF toks = <<>> THEN Failed(EndOfTerm, toks)
    ELSE LET token == Head(toks)
             rest == Tail(toks)
         IN CASE token.value = <<"[">> ->
                    LET term == parse_term(rest)
                    IN IF term.status # "ok" THEN term
                       ELSE IF term.tokens = <<>>
                            THEN Failed(UnexpectedEndOfFile("Unexpected EOF, expected ]"), <<>>)
                       ELSE IF Head(term.tokens).value # <<"]">>
                            THEN Failed(UnexpectedToken("]", Head(term.tokens)),
                                        Tail(term.tokens))
                       ELSE Parsed(Quotation(term.value), Tail(term.tokens))
              [] token.value = Keywords.Dup -> Parsed(Dup, rest)
              [] token.value = Keywords.Drop -> Parsed(Drop, rest)
              [] token.value = Keywords.Quote -> Parsed(Quote, rest)
              [] token.value = Keywords.Call -> Parsed(Call, rest)
              [] token.value = Keywords.Cat -> Parsed(Cat, rest)
              [] token.value = Keywords.Swap -> Parsed(Swap, rest)
              [] token.value = Keywords.Ifte -> Parsed(Ifte, rest)
              [] OTHER ->
                    IF ParsesAsInteger(token.value) THEN Parsed(IntLit, rest)
                    ELSE IF ParsesAsBool(token.value) THEN Parsed(BoolLit, rest)
                    ELSE IF is_valid_identifier(token)
                         THEN Parsed(Identifier(token.value, token), rest)
                    ELSE IF /\ token.value # <<>>
                            /\ token.value[1] = "\""
                            /\ token.value[Len(token.value)] = "\""
                         THEN Parsed(StringLit, rest)
                    ELSE Failed(EndOfTerm, toks)

RECURSIVE parse_type(_), ParseInTypes(_, _), ParseOutTypes(_, _, _, _)

\* parse_type, the first loop: `,` type is repeated up to `->`; the loop also
\* ends when the tokens run out
ParseInTypes(toks, in_types) ==
    IF toks = <<>> THEN Parsed(in_types, toks)
    ELSE LET token == Head(toks)
         IN IF token.value = <<"-", ">">> THEN Parsed(in_types, Tail(toks))
            ELSE IF token.value = <<",">>
                 THEN LET t == parse_type(Tail(toks))
                      IN IF t.status # "ok" THEN t
                         ELSE ParseInTypes(t.tokens, Append(in_types, t.value))
            ELSE Failed(UnexpectedToken(",", token), Tail(toks))

\* parse_type, the second loop: `,` type is repeated up to `)`; the value is
\* the annotation Function(in_types, out_types, first_token, last_token)
ParseOutTypes(toks, in_types, out_types, tks) ==
    IF toks = <<>>
    THEN Parsed(AnnotationFunction(in_types, out_types, tks.first_token, tks.last_token), toks)
    ELSE LET token == Head(toks)
         IN IF token.value = <<")">>
            THEN Parsed(AnnotationFunction(in_types, out_types, tks.first_token, token),
                        Tail(toks))
            ELSE IF token.value = <<",">>
                 THEN LET t == parse_type(Tail(toks))
                      IN IF t.status # "ok" THEN t
                         ELSE ParseOutTypes(t.tokens, in_types, Append(out_types, t.value),
                                            [tks EXCEPT !.last_token = token])
            ELSE Failed(UnexpectedToken(",", token), Tail(toks))

\* Parser::parse_type
parse_type(toks) ==
    IF toks = <<>> THEN Failed(UnexpectedEndOfFile("Unexpected EOF, expected type"), toks)
    ELSE LET first_token == Head(toks)
             rest == Tail(toks)
         IN IF is_valid_identifier(first_token)
            THEN Parsed(AnnotationIdentifier(first_token.value, first_token), rest)
            ELSE IF first_token.value = <<"(">>
                 THEN LET t_in == parse_type(rest)
                      IN IF t_in.status # "ok" THEN t_in
                         ELSE LET ins == ParseInTypes(t_in.tokens, <<t_in.value>>)
                              IN IF ins.status # "ok" THEN ins
                                 ELSE LET t_out == parse_type(ins.tokens)
                                      IN IF t_out.status # "ok" THEN t_out
                                         ELSE ParseOutTypes(t_out.tokens, ins.value,
                                                            <<t_out.value>>,
                                                            [first_token |-> first_token,
                                                             last_token |-> first_token])
            ELSE Failed(UnexpectedToken("type", first_token), rest)

\* self.next().ok_or(UnexpectedEndOfFile(..)) and the test of the token's
\* value that follows it in parse_definition
Expect(toks, value, expected, message) ==
    IF toks = <<>> THEN Failed(UnexpectedEndOfFile(message), toks)
    ELSE IF Head(toks).value # value THEN Failed(UnexpectedToken(expected, Head(toks)), Tail(toks))
    ELSE Parsed(Head(toks), Tail(toks))

\* Parser::parse_definition
parse_definition(toks) ==
    LET def == Expect(toks, <<"d", "e", "f">>, "def", "Unexpected EOF, expected def")
    IN IF def.status # "ok" THEN def
       ELSE IF def.tokens = <<>>
            THEN Failed(UnexpectedEndOfFile("Unexpected EOF, expected name"), <<>>)
       ELSE LET name == Head(def.tokens)
            IN IF ~is_valid_identifier(name)
               THEN Failed(UnexpectedToken("identifier", name), Tail(def.tokens))
               ELSE LET colon == Expect(Tail(def.tokens), <<":">>, ":",
                                        "Unexpected EOF, expected colon")
                    IN IF colon.status # "ok" THEN colon
                       ELSE LET type_ == parse_type(colon.tokens)
                            IN IF type_.status # "ok" THEN type_
                               ELSE LET equals == Expect(type_.tokens, <<"=">>, "=",
                                                         "Unexpected EOF, expected =")
                                    IN IF equals.status # "ok" THEN equals
                                       ELSE LET term == parse_term(equals.tokens)
                                            IN IF term.status # "ok" THEN term
                                               ELSE LET semi == Expect(term.tokens, <<";">>, ";",
                                                                       "Unexpected EOF, expected ;")
                                                    IN IF semi.status # "ok" THEN semi
                                                       ELSE Parsed(Definition(name.value,
                                                                              type_.value,
                                                                              term.value),
                                                                   semi.tokens)

\* Token sequences of up to max tokens over `def`, a name, a number, the
\* brackets, `;` and `:`
TokenValues ==
    {<<"d", "e", "f">>, <<"a">>, <<"1">>, <<"[">>, <<"]">>, <<";">>, <<":">>}

ValueSequences(max) == UNION {[1..n -> TokenValues] : n \in 0..max}

\* The token sequences of the tests, and longer ones: whole definitions,
\* function types, every keyword, and definitions cut or broken at each place
DeepValueSequences ==
    { <<<<"d", "e", "f">>, <<"a">>, <<":">>, <<"I", "n", "t">>, <<"=">>, <<"1">>, <<";">>>>,
      <<<<"d", "e", "f">>, <<"a">>, <<":">>, <<"(">>, <<"I", "n", "t">>, <<",">>, <<"S", "t", "r", "i", "n", "g">>, <<"-", ">">>, <<"I", "n", "t">>, <<",">>, <<"S", "t", "r", "i", "n", "g">>, <<")">>, <<"=">>, <<"1">>, <<"d", "r", "o", "p">>, <<";">>>>,
      <<<<"d", "e", "f">>, <<"a">>, <<":">>, <<"I", "n", "t">>, <<"=">>, <<"1">>, <<"[">>>>,
      <<<<"1">>, <<"2">>, <<"+">>>>,
      <<<<"\"", "H", "e", "l", "l", "o", "\"">>>>,
      <<<<"d", "e", "f">>, <<"a">>, <<":">>, <<"I", "n", "t">>, <<"=">>, <<"[">>, <<"1">>, <<"]">>, <<";">>, <<"a">>>>,
      <<<<"d", "e", "f">>, <<"a">>, <<":">>, <<"I", "n", "t">>, <<"=">>, <<"1">>, <<";">>, <<"d", "e", "f">>, <<"b">>, <<":">>, <<"I", "n", "t">>, <<"=">>, <<"a">>, <<";">>, <<"b">>, <<"]">>>>,
      <<<<"d", "u", "p">>, <<"d", "r", "o", "p">>, <<"q", "u", "o", "t", "e">>, <<"c", "a", "l", "l">>, <<"c", "a", "t">>, <<"s", "w", "a", "p">>, <<"i", "f", "t", "e">>, <<"t", "r", "u", "e">>, <<"-", "1">>, <<"\"", "s", "\"">>>>,
      <<<<"d", "e", "f">>, <<"a">>, <<":">>, <<"(">>, <<"I", "n", "t">>, <<"-", ">">>, <<"I", "n", "t">>, <<"=">>, <<";">>>>,
      <<<<"d", "e", "f">>, <<"a">>, <<":">>, <<"(">>, <<"I", "n", "t">>, <<",">>, <<"I", "n", "t">>>>,
      <<<<"d", "e", "f">>, <<"a">>, <<":">>, <<"(">>, <<"I", "n", "t">>, <<"-", ">">>, <<"I", "n", "t">>, <<",">>, <<"I", "n", "t">>>>,
      <<<<"d", "e", "f">>, <<"a">>, <<":">>, <<"(">>, <<"I", "n", "t">>, <<";">>, <<"I", "n", "t">>, <<")">>, <<"=">>, <<";">>>>,
      <<<<"d", "e", "f">>, <<"a">>, <<":">>, <<"(">>, <<"I", "n", "t">>, <<"-", ">">>, <<"I", "n", "t">>, <<";">>, <<")">>, <<"=">>, <<";">>>>,
      <<<<"d", "e", "f">>, <<"a">>, <<":">>, <<"]">>, <<"=">>, <<";">>>>,
      <<<<"d", "e", "f">>, <<"a">>, <<":">>, <<"I", "n", "t">>, <<"1">>, <<";">>>>,
      <<<<"d", "e", "f">>, <<"[">>, <<":">>, <<"I", "n", "t">>, <<"=">>, <<"1">>, <<";">>>>,
      <<<<"d", "e", "f">>, <<"a">>, <<":">>, <<"I", "n", "t">>, <<"=">>, <<"[">>, <<"1">>, <<";">>>>,
      <<<<"[">>, <<"[">>, <<"1">>, <<"]">>, <<"a">>, <<"]">>, <<";">>, <<"1">>>> }

\* Tokens as scan places them on one line; col is the token's place
Tokenize(values) == [i \in 1..Len(values) |-> Token(values[i], 1, i)]

InitParse ==
    /\ parser_tokens \in {Tokenize(values) :
                             values \in ValueSequences(MaxTokens) \cup DeepValueSequences}
    /\ parsed_cycles = <<>>
    /\ parse_status = "running"
    /\ parse_error = NoError
    /\ AIIdle
    /\ TCIdle
    /\ ScanIdle

\* `while let Some(token) = self.peek()`: a token is left. The cycles parse
\* collects are capped at MaxCycles.
AtToken ==
    /\ parse_status = "running"
    /\ parser_tokens # <<>>
    /\ Len(parsed_cycles) < MaxCycles

\* One iteration of the loop of parse: the cycle is pushed, or the error
\* returned
AdvanceParse(r, cycle) ==
    /\ parser_tokens' = r.tokens
    /\ parsed_cycles' = IF r.status = "ok" THEN Append(parsed_cycles, cycle) ELSE parsed_cycles
    /\ parse_status' = IF r.status = "ok" THEN "running" ELSE "error"
    /\ parse_error' = r.error
    /\ UNCHANGED <<ai_vars, tc_vars, scan_vars>>

ParseDefinitionCycle ==
    /\ AtToken
    /\ Head(parser_tokens).value = <<"d", "e", "f">>
    /\ AdvanceParse(parse_definition(parser_tokens), parse_definition(parser_tokens).value)

ParseTermCycle ==
    /\ AtToken
    /\ Head(parser_tokens).value # <<"d", "e", "f">>
    /\ AdvanceParse(parse_term(parser_tokens), Term(parse_term(parser_tokens).value))

\* No token is left: Ok(cycles)
ParseReturn ==
    /\ parse_status = "running"
    /\ parser_tokens = <<>>
    /\ parse_status' = "ok"
    /\ UNCHANGED <<parser_tokens, parsed_cycles, parse_error, ai_vars, tc_vars, scan_vars>>

NextParse ==
    \/ ParseDefinitionCycle
    \/ ParseTermCycle
    \/ ParseReturn

SpecParse == InitParse /\ [][NextParse]_vars

----------------------------------------------------------------------------
(* Helpers of the properties *)

Last(seq) == seq[Len(seq)]
Front(seq) == SubSeq(seq, 1, Len(seq) - 1)

\* The ids of the parameters of a type, in order of occurrence (inputs first)
RECURSIVE ParamSeq(_), ParamSeqOfList(_)
ParamSeq(t) ==
    CASE t.k = "Param" -> <<t.n>>
      [] t.k = "Function" -> ParamSeqOfList(t.t_in) \o ParamSeqOfList(t.t_out)
      [] OTHER -> <<>>
ParamSeqOfList(ts) ==
    IF ts = <<>> THEN <<>> ELSE ParamSeq(Head(ts)) \o ParamSeqOfList(Tail(ts))

\* How many distinct ids occur in seq before the first occurrence of n
Rank(seq, n) ==
    LET first == CHOOSE i \in 1..Len(seq) : seq[i] = n /\ \A j \in 1..(i - 1) : seq[j] # n
    IN Cardinality({seq[j] : j \in 1..first}) - 1

RECURSIVE Renamed(_, _), RenamedList(_, _)
Renamed(t, seq) ==
    CASE t.k = "Param" -> Param(Rank(seq, t.n))
      [] t.k = "Function" -> Function(RenamedList(t.t_in, seq), RenamedList(t.t_out, seq))
      [] OTHER -> t
RenamedList(ts, seq) ==
    IF ts = <<>> THEN <<>> ELSE <<Renamed(Head(ts), seq)>> \o RenamedList(Tail(ts), seq)

\* A type with its parameters numbered in order of first occurrence: two types
\* are equal up to a renaming of parameters exactly when their canonical forms
\* are equal.
Canonical(t) == Renamed(t, ParamSeq(t))
EqualUpToRenaming(t1, t2) == Canonical(t1) = Canonical(t2)

\* A term of literals, dup, drop, quote and nested quotations of such terms
RECURSIVE IsPlainTerm(_)
IsPlainTerm(term) ==
    \A i \in 1..Len(term) :
        \/ term[i].f \in Literals \cup {"Dup", "Drop", "Quote"}
        \/ term[i].f = "Quotation" /\ IsPlainTerm(term[i].term)

GroundType(factor) ==
    CASE factor.f = "Int" -> TypeInt
      [] factor.f = "Bool" -> TypeBool
      [] factor.f = "String" -> TypeString

IsGround(t) == t.k \in {"Int", "Bool", "String"}

Ended == status # "running"

----------------------------------------------------------------------------
(* Properties of AbstractInterpreter, checked under Spec *)

\* The run is of a term `pre [body] call` with a plain body
IsQuotedCall ==
    /\ Len(factors) >= 2
    /\ factors[Len(factors)].f = "Call"
    /\ factors[Len(factors) - 1].f = "Quotation"
    /\ IsPlainTerm(factors[Len(factors) - 1].term)

InlinedTerm == SubSeq(factors, 1, Len(factors) - 2) \o factors[Len(factors) - 1].term

\* C1: interpret ends on `pre [body] call` as it ends on the inlined term
\* `pre body`, and when it returns a type the two types are equal up to a
\* renaming of parameters.
C1_CallInfersInlinedType ==
    (Ended /\ IsQuotedCall) =>
        LET inlined == interpret(InlinedTerm)
        IN /\ status = inlined.status
           /\ status = "ok" => EqualUpToRenaming(result, inlined.value)

\* C2: dup, drop and quote act on the top of the abstract stack only: with a
\* non-empty out_stack the top a is replaced by a a, by nothing or by
\* Function([], [a]) and nothing else changes; with an empty out_stack one
\* fresh Param is minted, appended to in_stack and used as a.
C2_ActsOnTop(factor) ==
    LET minted == out_stack = <<>>
        a == IF minted THEN Param(param_count) ELSE Last(out_stack)
        below == IF minted THEN <<>> ELSE Front(out_stack)
    IN /\ in_stack' = IF minted THEN Append(in_stack, a) ELSE in_stack
       /\ param_count' = IF minted THEN param_count + 1 ELSE param_count
       /\ out_stack' = below \o CASE factor.f = "Dup" -> <<a, a>>
                                  [] factor.f = "Drop" -> <<>>
                                  [] factor.f = "Quote" -> <<Function(<<>>, <<a>>)>>
       /\ status' = "running"

C2_DupDropQuoteActOnTop ==
    [][AtFactor({"Dup", "Drop", "Quote"}) => C2_ActsOnTop(factors[pc])]_vars

\* A dup, drop or quote has acted on a stack of several values
C2_Witness ==
    /\ pc > 1
    /\ factors[pc - 1].f \in {"Dup", "Quote"}
    /\ Len(out_stack) >= 3
    /\ in_stack = <<>>

\* C3: a term of literals alone returns Function([], [T1, ..., Tn]), Ti the
\* ground type of the i-th literal; no parameter is minted and in_stack stays
\* empty.
C3_LiteralsGiveGroundTypes ==
    (\A i \in 1..Len(factors) : factors[i].f \in Literals) =>
        /\ in_stack = <<>>
        /\ param_count = 0
        /\ status \in {"running", "ok"}
        /\ status = "ok" =>
              result = Function(<<>>, [i \in 1..Len(factors) |-> GroundType(factors[i])])

C3_Witness ==
    /\ status = "ok"
    /\ Len(factors) = 3
    /\ factors[1].f = "Int" /\ factors[2].f = "Bool" /\ factors[3].f = "String"

\* C4: a call that pops a ground type ends the run with a TypeError
C4_CallOfGroundIsTypeError ==
    [][(AtFactor({"Call"}) /\ out_stack # <<>> /\ IsGround(Last(out_stack)))
          => (status' = "error" /\ result'.kind = "TypeError")]_vars

\* C5: in_stack is always [Param(0), ..., Param(param_count - 1)], and
\* param_count never decreases.
C5_InStackIsParams ==
    in_stack = [i \in 1..param_count |-> Param(i - 1)]

C5_ParamsNumberedInOrder ==
    /\ []C5_InStackIsParams
    /\ [][param_count' >= param_count /\ SubSeq(in_stack', 1, Len(in_stack)) = in_stack]_vars

\* Three parameters have been minted, by the factors and by a call
C5_Witness ==
    /\ param_count >= 3
    /\ \E i \in 1..Len(factors) : factors[i].f = "Call"

\* C6: a quotation pushes the Function type a fresh interpreter returns for
\* its inner term, its parameters numbered from Param(0), and changes nothing
\* else of the parent; the inner term's error is the parent's error.
C6_PushesChildType ==
    LET child == interpret(factors[pc].term)
    IN /\ in_stack' = in_stack
       /\ param_count' = param_count
       /\ child.status = "ok" =>
             /\ out_stack' = Append(out_stack, child.value)
             /\ child.value.k = "Function"
             /\ \A i \in 1..Len(child.value.t_in) : child.value.t_in[i] = Param(i - 1)
             /\ status' = "running"
       /\ child.status = "error" =>
             /\ status' = "error"
             /\ result' = child.value
             /\ result'.kind = "TypeError"

C6_QuotationPushesChildType ==
    [][AtFactor({"Quotation"}) => C6_PushesChildType]_vars

\* A quotation whose inner term underflows has been pushed above other
\* values, the parent having minted parameters of its own
C6_Witness ==
    /\ pc > 1
    /\ status = "running"
    /\ factors[pc - 1].f = "Quotation"
    /\ Len(out_stack) >= 2
    /\ param_count >= 1
    /\ Len(Last(out_stack).t_in) >= 1

\* The error of an inner term has ended the parent's run
C6_ErrorReached ==
    /\ status = "error"
    /\ factors[pc - 1].f = "Quotation"

----------------------------------------------------------------------------
(* Properties of TypeChecker, checked under SpecTC *)

\* check has checked the one term cycle of a program of that cycle alone
CheckedOneTerm ==
    /\ Len(cycles) = 1
    /\ cycles[1].c = "Term"
    /\ cycle_ix = 2 \/ tc_status \in {"error", "panic"}

\* C7: the term `[t]` has type Function([], [F]), F the function type
\* inferred for t: the quotation is a value, it takes nothing from the stack
\* and adds nothing to the inputs of the enclosing term.
C7_QuotationIsValue ==
    (/\ CheckedOneTerm
     /\ Len(cycles[1].factors) = 1
     /\ cycles[1].factors[1].f = "Quotation"
     /\ check_term(BuiltinEnvironment, 0, cycles[1].factors[1].term).status = "ok")
    => LET F == check_term(BuiltinEnvironment, 0, cycles[1].factors[1].term).value
       IN /\ tc_result.status = "ok"
          /\ tc_result.value.t_in = <<>>
          /\ EqualUpToRenaming(tc_result.value, Function(<<>>, <<F>>))

SwapType == Function(<<Param(0), Param(1)>>, <<Param(1), Param(0)>>)

\* What both inference paths return for a term
BothInfer(term, t) ==
    /\ tc_result.status = "ok"
    /\ EqualUpToRenaming(tc_result.value, t)
    /\ interpret(term).status = "ok"
    /\ EqualUpToRenaming(interpret(term).value, t)

\* C8: both inference paths give `swap` the type (a b -> b a) with a and b
\* distinct, and give `A B swap` the type ( -> B A) for literals A and B.
C8_SwapExchangesTopTwo ==
    CheckedOneTerm =>
        LET term == cycles[1].factors
        IN /\ term = <<Swap>> => BothInfer(term, SwapType)
           /\ (/\ Len(term) = 3
               /\ term[1].f \in Literals
               /\ term[2].f \in Literals
               /\ term[3] = Swap)
              => BothInfer(term, Function(<<>>, <<GroundType(term[2]), GroundType(term[1])>>))

\* The cycle the loop of check stands before is a term of literals followed
\* by a builtin word, and a literal the word takes is not of the ground type
\* the word expects at its place
LiteralMismatchesBuiltin ==
    /\ AtCycle("Term")
    /\ LET term == cycles[cycle_ix].factors
           n == Len(term)
       IN /\ n >= 2
          /\ \A i \in 1..(n - 1) : term[i].f \in Literals
          /\ term[n].f = "Identifier"
          /\ term[n].name \in DOMAIN BuiltinEnvironment
          /\ LET t_in == BuiltinEnvironment[term[n].name].t_in
             IN \E j \in 1..Len(t_in) :
                   /\ j <= n - 1
                   /\ t_in[Len(t_in) - j + 1] # GroundType(term[n - j])

\* C9: a builtin word applied to a literal of another ground type than the
\* one it expects makes check return a TypeError.
C9_GroundMismatchIsTypeError ==
    [][LiteralMismatchesBuiltin
          => (tc_status' = "error" /\ tc_result'.value.kind = "TypeError")]_vars

\* A term of literals, dup, drop, quote, swap, ifte, identifiers and
\* quotations of such terms
RECURSIVE IsCheckableTerm(_)
IsCheckableTerm(term) ==
    \A i \in 1..Len(term) :
        \/ term[i].f \in Literals \cup {"Dup", "Drop", "Quote", "Swap", "Ifte", "Identifier"}
        \/ term[i].f = "Quotation" /\ IsCheckableTerm(term[i].term)

\* The tokens of the identifiers of a term, at any depth, whose name is not
\* in bound
RECURSIVE UnboundTokens(_, _)
UnboundTokens(term, bound) ==
    UNION {CASE term[i].f = "Identifier" ->
                   IF term[i].name \in bound THEN {} ELSE {term[i].token}
             [] term[i].f = "Quotation" -> UnboundTokens(term[i].term, bound)
             [] OTHER -> {}
           : i \in 1..Len(term)}

Leftmost(unbound) ==
    CHOOSE t \in unbound : \A u \in unbound : t.line < u.line \/ (t.line = u.line /\ t.col <= u.col)

\* The names bound when the term of the cycle is checked: a definition's own
\* name is bound before its body is checked
BoundFor(cycle) ==
    DOMAIN environment \cup (IF cycle.c = "Definition" THEN {cycle.name} ELSE {})

\* The cycle the loop of check stands before has a checkable term with an
\* identifier that is not bound
AtUnknownIdentifier ==
    /\ tc_status = "running"
    /\ cycle_ix <= Len(cycles)
    /\ IsCheckableTerm(cycles[cycle_ix].factors)
    /\ UnboundTokens(cycles[cycle_ix].factors, BoundFor(cycles[cycle_ix])) # {}

AnnotationResolves(cycle) ==
    cycle.c = "Definition" => type_from_annotation(cycle.annotation).status = "ok"

\* check returns the TypeError of the leftmost unbound identifier
ReturnsUnknownIdentifier ==
    LET token == Leftmost(UnboundTokens(cycles[cycle_ix].factors, BoundFor(cycles[cycle_ix])))
    IN /\ tc_status' = "error"
       /\ tc_result' = Err(TypeError("Unknown identifier " \o token.value, token))
       /\ cycle_ix' = cycle_ix

\* C10 as stated: every cycle whose term holds an unbound identifier makes
\* check return "Unknown identifier <name>" with the token of the leftmost
\* one, and no cycle is checked after an error.
C10_UnknownIdentifierInAnyCycle ==
    /\ [][AtUnknownIdentifier => ReturnsUnknownIdentifier]_vars
    /\ [][tc_status # "error"]_vars

\* C10, amended: a term cycle, or a definition whose annotation resolves,
\* whose term holds an unbound identifier makes check return "Unknown
\* identifier <name>" with the token of the leftmost one, and no cycle is
\* checked after an error.
C10_UnknownIdentifierReported ==
    /\ [][(AtUnknownIdentifier /\ AnnotationResolves(cycles[cycle_ix]))
             => ReturnsUnknownIdentifier]_vars
    /\ [][tc_status # "error"]_vars

\* The unknown identifier of a definition's body has ended check before the
\* last cycle
C10_Witness ==
    /\ tc_status = "error"
    /\ tc_result.value.kind = "TypeError"
    /\ tc_result.value.message = "Unknown identifier b"
    /\ cycle_ix < Len(cycles)

\* The leftmost unknown identifier was inside a quotation and not the first
\* identifier of the term
C10_NestedReached ==
    /\ tc_status = "error"
    /\ cycle_ix = 2
    /\ tc_result.value.message = "Unknown identifier b"
    /\ \E i \in 1..Len(cycles[2].factors) : cycles[2].factors[i].f = "Quotation"

\* The resolved type of the annotation of a definition
DeclaredType(cycle) == type_from_annotation(cycle.annotation).value

\* The names the definitions of the file define
NamesOfFile == {cycles[i].name : i \in {j \in 1..Len(cycles) : cycles[j].c = "Definition"}}

\* The file is of definitions alone, every annotation resolves and every
\* identifier of every body is a builtin word or a name the file defines
FileOfClosedDefinitions ==
    \A i \in 1..Len(cycles) :
        /\ cycles[i].c = "Definition"
        /\ type_from_annotation(cycles[i].annotation).status = "ok"
        /\ IsCheckableTerm(cycles[i].factors)
        /\ UnboundTokens(cycles[i].factors, DOMAIN BuiltinEnvironment \cup NamesOfFile) = {}

\* Every name defined by a cycle already checked has the declared type of
\* its latest such definition
CheckedDefinitionsBound ==
    \A j \in 1..(cycle_ix - 1) :
        (/\ cycles[j].c = "Definition"
         /\ \A l \in (j + 1)..(cycle_ix - 1) :
               ~(cycles[l].c = "Definition" /\ cycles[l].name = cycles[j].name))
        => /\ cycles[j].name \in DOMAIN environment
           /\ environment[cycles[j].name] = DeclaredType(cycles[j])

\* C11: check accepts a file of definitions whose bodies name themselves or
\* each other, and every cycle after a definition finds the definition's name
\* bound to its declared type.
C11_AcceptsSelfAndMutualReference ==
    [][/\ FileOfClosedDefinitions => tc_status' # "error"
       /\ CheckedDefinitionsBound]_vars

\* C12: a cycle that check_cycle fails leaves the environment as it was
\* before the call; the name of a failed definition is not bound.
C12_FailedCycleLeavesEnvironment ==
    [][tc_status' = "error" => environment' = environment]_vars

\* The body of the definition the loop of check stands before types, and its
\* type is neither the declared type up to renaming nor, for a declared type
\* that is not a function, the type ( -> T) of a term that pushes one T
BodyMismatchesDeclared ==
    /\ AtCycle("Definition")
    /\ type_from_annotation(cycles[cycle_ix].annotation).status = "ok"
    /\ LET T == DeclaredType(cycles[cycle_ix])
           body == check_term(Insert(environment, cycles[cycle_ix].name, T),
                              tc_param_count, cycles[cycle_ix].factors)
       IN /\ body.status = "ok"
          /\ ~EqualUpToRenaming(body.value, T)
          /\ body.value # Function(<<>>, <<T>>)

\* C13: a definition whose body's inferred type is not the declared type
\* makes check return a TypeError.
C13_BodyMustMatchAnnotation ==
    [][BodyMismatchesDeclared
          => (tc_status' = "error" /\ tc_result'.value.kind = "TypeError")]_vars

\* C19: a name bound in the environment keeps its type and is never removed,
\* also when a later definition uses the same name, and a term cycle leaves
\* the environment unchanged.
C19_EnvironmentAppendOnly ==
    [][/\ \A name \in DOMAIN environment :
             /\ name \in DOMAIN environment'
             /\ environment'[name] = environment[name]
       /\ AtCycle("Term") => environment' = environment]_vars

----------------------------------------------------------------------------
(* Properties of AbstractInterpreter, checked under Spec *)

\* The term is `pre quote call`, pre of literals, dup, drop and quote
IsQuoteCall ==
    /\ Len(factors) >= 2
    /\ factors[Len(factors)].f = "Call"
    /\ factors[Len(factors) - 1].f = "Quote"
    /\ \A i \in 1..(Len(factors) - 2) : factors[i].f \in Literals \cup {"Dup", "Drop", "Quote"}

\* C20: `quote` followed by `call` is the identity: `pre quote call` ends with
\* the type of `pre` when pre leaves a value on the stack, and `quote call`
\* alone has the type (a -> a).
C20_QuoteCallIsIdentity ==
    (Ended /\ IsQuoteCall) =>
        LET pre == interpret(SubSeq(factors, 1, Len(factors) - 2))
        IN /\ Len(factors) = 2 =>
                /\ status = "ok"
                /\ EqualUpToRenaming(result, Function(<<Param(0)>>, <<Param(0)>>))
           /\ (pre.status = "ok" /\ pre.value.t_out # <<>>) =>
                /\ status = "ok"
                /\ EqualUpToRenaming(result, pre.value)

----------------------------------------------------------------------------
(* Properties of scan, checked under SpecScan *)

\* The punctuation characters of s from place i on that are outside the
\* string literals, in order; inside tells whether place i is in a literal,
\* where a backslash takes the character after it
RECURSIVE PunctuationOutside(_, _, _)
PunctuationOutside(s, i, inside) ==
    IF i > Len(s) THEN <<>>
    ELSE IF inside
         THEN CASE s[i] = "\\" -> PunctuationOutside(s, i + 2, TRUE)
                [] s[i] = "\"" -> PunctuationOutside(s, i + 1, FALSE)
                [] OTHER -> PunctuationOutside(s, i + 1, TRUE)
         ELSE CASE s[i] = "\"" -> PunctuationOutside(s, i + 1, TRUE)
                [] s[i] \in Punctuation -> <<s[i]>> \o PunctuationOutside(s, i + 1, FALSE)
                [] OTHER -> PunctuationOutside(s, i + 1, FALSE)

IsPunctuationToken(t) == Len(t.value) = 1 /\ t.value[1] \in Punctuation

\* A token that ends with the closing quote of a string literal
IsStringToken(t) == t.value # <<>> /\ t.value[Len(t.value)] = "\""

\* The punctuation characters outside the string literals are the
\* one-character punctuation tokens, in source order
PunctuationTokensInOrder ==
    LET punctuation == SelectSeq(tokens, IsPunctuationToken)
    IN [i \in 1..Len(punctuation) |-> punctuation[i].value[1]]
       = PunctuationOutside(string, 1, FALSE)

\* C15: scan emits every punctuation character outside a string literal as
\* its own one-character token, in source order, and no other token that is
\* not a string holds a punctuation character.
C15_PunctuationIsOwnToken ==
    scan_status = "ok" =>
        /\ PunctuationTokensInOrder
        /\ \A i \in 1..Len(tokens) :
              \/ IsPunctuationToken(tokens[i])
              \/ IsStringToken(tokens[i])
              \/ \A j \in 1..Len(tokens[i].value) : tokens[i].value[j] \notin Punctuation

\* Where the first string literal of s, from place i on, that is not closed
\* was opened: 0 when every literal is closed. open is the place of the quote
\* that opened the literal place i is in, 0 outside a literal; a backslash in
\* a literal takes the character after it, a raw newline or the end of the
\* input in a literal leaves it unclosed
RECURSIVE UnterminatedAt(_, _, _)
UnterminatedAt(s, i, open) ==
    IF i > Len(s) THEN open
    ELSE IF open > 0
         THEN CASE s[i] = "\\" -> UnterminatedAt(s, i + 2, open)
                [] s[i] = "\"" -> UnterminatedAt(s, i + 1, 0)
                [] s[i] = "\n" -> open
                [] OTHER -> UnterminatedAt(s, i + 1, open)
         ELSE IF s[i] = "\"" THEN UnterminatedAt(s, i + 1, i)
              ELSE UnterminatedAt(s, i + 1, 0)

\* The line, from 1, of place i of s
LineOf(s, i) == 1 + Cardinality({j \in 1..(i - 1) : s[j] = "\n"})

\* C16: scan returns ParseError "Unterminated string" exactly when a string
\* literal reaches a raw newline or the end of the input before its closing
\* quote, and the error's line is the line of the opening quote.
C16_UnterminatedString ==
    scan_status \in {"ok", "error"} =>
        LET open == UnterminatedAt(string, 1, 0)
        IN /\ scan_status = "error" <=> open > 0
           /\ scan_status = "error" =>
                /\ scan_error.kind = "ParseError"
                /\ scan_error.message = "Unterminated string"
                /\ scan_error.token.line = LineOf(string, open)

\* The column, from 1, of place i of s
ColOf(s, i) ==
    LET newlines == {j \in 1..(i - 1) : s[j] = "\n"}
    IN i - (IF newlines = {} THEN 0 ELSE CHOOSE j \in newlines : \A l \in newlines : l <= j)

\* The places of s, a source without quotes, where a token starts: a
\* punctuation character, or a character that is not whitespace at the start
\* of the source or after whitespace or punctuation
TokenStarts(s) ==
    LET starts(i) ==
            /\ s[i] \notin Whitespace
            /\ \/ s[i] \in Punctuation
               \/ i = 1
               \/ s[i - 1] \in Whitespace \cup Punctuation
    IN SelectSeq([i \in 1..Len(s) |-> i], starts)

\* C17: every token of a source without string literals records the line and
\* the column, both from 1, of its first character.
C17_TokensRecordFirstCharacter ==
    (scan_status = "ok" /\ \A i \in 1..Len(string) : string[i] # "\"") =>
        LET starts == TokenStarts(string)
        IN /\ Len(tokens) = Len(starts)
           /\ \A i \in 1..Len(tokens) :
                 /\ tokens[i].line = LineOf(string, starts[i])
                 /\ tokens[i].col = ColOf(string, starts[i])

----------------------------------------------------------------------------
(* Properties of Parser, checked under SpecParse *)

\* C14: every iteration of the top-level loop of parse that pushes a cycle
\* has consumed at least one token, also when the next token cannot start a
\* factor, so parse ends on every token sequence.
C14_EveryCycleConsumesAToken ==
    [][(parse_status = "running" /\ parse_status' = "running")
          => Len(parser_tokens') < Len(parser_tokens)]_vars

\* The token sequences that are the last n tokens of toks
Suffixes(toks) == {SubSeq(toks, i, Len(toks)) : i \in 1..(Len(toks) + 1)}

\* parse_factor returns a factor for a sequence that starts with the token
CanStartFactor(token) == parse_factor(<<token>>).error # EndOfTerm

\* parse_term on toks, when it returns a term, leaves a suffix of toks that
\* is empty or starts with a token that cannot start a factor
LeavesStoppingToken(toks) ==
    LET r == parse_term(toks)
    IN r.status = "ok" =>
          /\ r.tokens \in Suffixes(toks)
          /\ r.tokens # <<>> => ~CanStartFactor(Head(r.tokens))

\* C18: parse never returns EndOfTerm: it ends with a list of cycles, an
\* UnexpectedEndOfFile or an UnexpectedToken; and parse_term, called on
\* any of the tokens left, leaves the token it stops at unconsumed.
C18_EndOfTermNeverSurfaces ==
    /\ parse_status = "error" => parse_error.kind \in {"UnexpectedEndOfFile", "UnexpectedToken"}
    /\ parse_status # "error" => parse_error = NoError
    /\ \A toks \in Suffixes(parser_tokens) :
          /\ LeavesStoppingToken(toks)
          /\ parse_term(toks).status = "error"
                => parse_term(toks).error.kind \in {"UnexpectedEndOfFile", "UnexpectedToken"}

\* parse has returned the cycles of a file whose definition has a body with a
\* quotation: parse_term stopped at `]` and at `;`, and both were left for
\* the caller to consume
C18_Witness ==
    /\ parse_status = "ok"
    /\ \E i \in 1..Len(parsed_cycles) :
          /\ parsed_cycles[i].c = "Definition"
          /\ \E j \in 1..Len(parsed_cycles[i].factors) :
                /\ parsed_cycles[i].factors[j].f = "Quotation"
                /\ parsed_cycles[i].factors[j].term # <<>>

\* parse has returned an error after parse_term stopped at a token its
\* caller did not expect
C18_ErrorReached ==
    /\ parse_status = "error"
    /\ parse_error.kind = "UnexpectedToken"
    /\ parse_error.message = "]"

----------------------------------------------------------------------------
(* Token values and the source, checked under SpecScan *)

\* The characters of s from place i on without the whitespace that is
\* outside the string literals; inside tells whether place i is in a
\* literal, where a backslash takes the character after it
RECURSIVE WithoutWhitespace(_, _, _)
WithoutWhitespace(s, i, inside) ==
    IF i > Len(s) THEN <<>>
    ELSE IF inside
         THEN CASE s[i] = "\\" ->
                      SubSeq(s, i, i + 1) \o WithoutWhitespace(s, i + 2, TRUE)
                [] s[i] = "\"" -> <<s[i]>> \o WithoutWhitespace(s, i + 1, FALSE)
                [] OTHER -> <<s[i]>> \o WithoutWhitespace(s, i + 1, TRUE)
         ELSE CASE s[i] = "\"" -> <<s[i]>> \o WithoutWhitespace(s, i + 1, TRUE)
                [] s[i] \in Whitespace -> WithoutWhitespace(s, i + 1, FALSE)
                [] OTHER -> <<s[i]>> \o WithoutWhitespace(s, i + 1, FALSE)

\* The values of the tokens, one after the other
RECURSIVE ConcatValues(_)
ConcatValues(toks) ==
    IF toks = <<>> THEN <<>> ELSE Head(toks).value \o ConcatValues(Tail(toks))

\* C21: the values of the tokens of a successful scan, one after the other,
\* are the source without the whitespace outside its string literals: the
\* tokens are substrings of the source in source order that do not overlap.
C21_TokensPartitionSource ==
    scan_status = "ok" => ConcatValues(tokens) = WithoutWhitespace(string, 1, FALSE)

----------------------------------------------------------------------------
(* The two inference paths, checked under Spec *)

\* The term is of literals, dup, drop and quote alone
IsFlatTerm ==
    \A i \in 1..Len(factors) : factors[i].f \in Literals \cup {"Dup", "Drop", "Quote"}

\* C22: for a term of literals, dup, drop and quote, check_cycle of a fresh
\* TypeChecker returns the type interpret returns, up to a renaming of
\* parameters.
C22_InferencePathsAgree ==
    (Ended /\ IsFlatTerm) =>
        LET checked == check_cycle(BuiltinEnvironment, 0, Term(factors))
        IN /\ status = "ok"
           /\ checked.status = "ok"
           /\ EqualUpToRenaming(checked.value, result)

====
